---- MODULE Spec2Model ----
(***************************************************************************)
(* Model of the storage-layout check action (src/src/index.ts): the        *)
(* report names, the artifact store shared by successive runs, the steps   *)
(* of run(), and the layout pipeline it calls (createLayout, parseLayout,  *)
(* checkLayouts, parseSource, formatDiff and diffLevels, which live in     *)
(* ./input, ./check and ./format and are modelled from spec.md sections    *)
(* 3, 4, 6 and 7).                                                         *)
(* src/unnamed/part_000 is an earlier revision of the same run(): the      *)
(* same steps, without the failOnRemoval clause of the final decision.     *)
(***************************************************************************)
EXTENDS Integers, Sequences, FiniteSets, TLC

(***************************************************************************)
(* Bounds                                                                  *)
(***************************************************************************)
\* number of runs of the action in one behaviour
MaxRuns == 2
\* number of artifacts uploaded by other workflows of the repository
MaxForeign == 1
\* number of artifacts per page of listArtifactsForRepo
PageSize == 2
\* number of variables of a layout handed to the diff engine
MaxVars == 3

(***************************************************************************)
(* Strings are sequences of one-character strings.                         *)
(***************************************************************************)
Branch_main == <<"m">>
Branch_slash == <<"f", "/", "x">>
Branch_dash == <<"f", "-", "x">>
Branches == {Branch_main, Branch_slash, Branch_dash}
\* the base input of a run that no pull request started: the empty string
NoBranch == <<>>

Contract_A == <<"s", "/", "A", ":", "A">>
Contract_B == <<"s", "/", "B", ":", "B">>
Contracts == {Contract_A, Contract_B}

\* String.prototype.replace with a global character-class pattern
ReplaceAll(s, chars, by) ==
  [i \in 1..Len(s) |-> IF s[i] \in chars THEN by ELSE s[i]]

contractEscaped(c) == ReplaceAll(ReplaceAll(c, {"/"}, "_"), {":"}, "-")

getReportPath(branch, baseName) ==
  ReplaceAll(branch, {"/", "\\"}, "-") \o <<".">> \o baseName
    \o <<".", "j", "s", "o", "n">>

(***************************************************************************)
(* Storage layouts (spec.md 3, 6).                                         *)
(***************************************************************************)
SlotWidth == 32

Labels == {"a", "b", "c"}
\* type spellings of a raw snapshot; "uint" is the alias of "uint256"
RawTypes == {"uint", "uint256", "uint128", "int128"}

\* LayoutParser: canonical type descriptor
canonicalType(t) == IF t = "uint" THEN "uint256" ELSE t

\* storage footprint of a type
typeBytes(t) == IF canonicalType(t) = "uint256" THEN SlotWidth ELSE SlotWidth \div 2

\* numeric strings of the slot field of a raw snapshot
SlotDigits == <<"0", "1", "2", "3", "4">>
slotString(n) == SlotDigits[n + 1]
isNumeric(s) == \E i \in DOMAIN SlotDigits : SlotDigits[i] = s
toNumber(s) == (CHOOSE i \in DOMAIN SlotDigits : SlotDigits[i] = s) - 1

\* A declaration list is a sequence of [label, type], labels distinct.
DeclsOfLen(n) ==
  {d \in [1..n -> [label : Labels, type : RawTypes]] :
     \A i, j \in 1..n : d[i].label = d[j].label => i = j}

Decls == UNION {DeclsOfLen(n) : n \in 0..MaxVars}

\* sequential packing of the compiler: a variable that does not fit in the
\* rest of the current slot starts the next slot
RECURSIVE startByte(_, _)
endByte(d, i) == startByte(d, i) + typeBytes(d[i].type)
startByte(d, i) ==
  LET free == IF i = 1 THEN 0 ELSE endByte(d, i - 1)
  IN IF (free % SlotWidth) + typeBytes(d[i].type) > SlotWidth
       THEN ((free \div SlotWidth) + 1) * SlotWidth
       ELSE free

\* the snapshot generator: the raw snapshot of a declaration list
createLayout(d) ==
  [i \in 1..Len(d) |->
     [label  |-> d[i].label,
      type   |-> d[i].type,
      slot   |-> slotString(startByte(d, i) \div SlotWidth),
      offset |-> startByte(d, i) % SlotWidth,
      bytes  |-> typeBytes(d[i].type)]]

RequiredFields == {"label", "type", "slot", "offset", "bytes"}

entryComplete(e) ==
  /\ RequiredFields \subseteq DOMAIN e
  /\ isNumeric(e.slot)

rawStart(e) == toNumber(e.slot) * SlotWidth + e.offset

overlap(e, f) ==
  /\ rawStart(e) < rawStart(f) + f.bytes
  /\ rawStart(f) < rawStart(e) + e.bytes

wellFormed(raw) ==
  /\ \A i \in DOMAIN raw : entryComplete(raw[i])
  /\ \A i, j \in DOMAIN raw : i # j => ~overlap(raw[i], raw[j])

\* LayoutParser: [ok, layout] or the MalformedLayout failure
parseLayout(raw) ==
  IF wellFormed(raw)
    THEN [ok |-> TRUE,
          layout |-> [i \in DOMAIN raw |->
             [label     |-> raw[i].label,
              typeId    |-> canonicalType(raw[i].type),
              slot      |-> toNumber(raw[i].slot),
              offset    |-> raw[i].offset,
              sizeBytes |-> raw[i].bytes]]]
    ELSE [ok |-> FALSE, layout |-> <<>>]

\* the layouts LayoutParser produces from the generator's snapshots
Layouts == {parseLayout(createLayout(d)).layout : d \in Decls}

(***************************************************************************)
(* DiffEngine (spec.md 4.2).                                               *)
(***************************************************************************)
ADDED == "ADDED"
VARIABLE_REMOVED == "REMOVED"
UNSAFE_TYPE_CHANGE == "UNSAFE_TYPE_CHANGE"
TYPE_CHANGE_WARNING == "TYPE_CHANGE_WARNING"
POSITION_SHIFT == "POSITION_SHIFT"
Kinds ==
  {ADDED, VARIABLE_REMOVED, UNSAFE_TYPE_CHANGE, TYPE_CHANGE_WARNING, POSITION_SHIFT}

labelsOf(L) == {L[i].label : i \in DOMAIN L}
byLabel(L, label) == L[CHOOSE i \in DOMAIN L : L[i].label = label]

\* identical size and representation (every type here is a value type)
storageCompatible(b, a) == b.sizeBytes = a.sizeBytes

Difference(kind, label) == [kind |-> kind, label |-> label]

typeDiff(b, a) ==
  IF b.typeId = a.typeId THEN <<>>
  ELSE IF storageCompatible(b, a)
    THEN <<Difference(TYPE_CHANGE_WARNING, a.label)>>
    ELSE <<Difference(UNSAFE_TYPE_CHANGE, a.label)>>

\* a shift test that compares the slot with the offset
positionDiff_slotOffset(b, a) ==
  IF b.slot # a.offset \/ b.offset # a.offset
    THEN <<Difference(POSITION_SHIFT, a.label)>>
    ELSE <<>>

positionDiff(b, a) ==
  IF b.slot # a.slot \/ b.offset # a.offset
    THEN <<Difference(POSITION_SHIFT, a.label)>>
    ELSE <<>>

\* an added variable behind the last slot of before reported as a shift too
afterDiff_shiftOnAppend(before, v) ==
  IF v.label \in labelsOf(before)
    THEN typeDiff(byLabel(before, v.label), v)
           \o positionDiff(byLabel(before, v.label), v)
    ELSE IF \A i \in DOMAIN before : before[i].slot < v.slot
      THEN <<Difference(ADDED, v.label), Difference(POSITION_SHIFT, v.label)>>
      ELSE <<Difference(ADDED, v.label)>>

\* the differences of one variable of after: matched by label, or added
afterDiff(before, v) ==
  IF v.label \in labelsOf(before)
    THEN typeDiff(byLabel(before, v.label), v)
           \o positionDiff(byLabel(before, v.label), v)
    ELSE <<Difference(ADDED, v.label)>>

\* a removed variable whose bytes an added variable reuses taken for a rename
beforeDiff_rename(after, v) ==
  IF v.label \in labelsOf(after) THEN <<>>
  ELSE IF \E j \in DOMAIN after :
            /\ after[j].slot = v.slot
            /\ after[j].offset = v.offset
            /\ after[j].sizeBytes = v.sizeBytes
    THEN <<>>
    ELSE <<Difference(VARIABLE_REMOVED, v.label)>>

\* the difference of one variable of before: removed, or nothing
beforeDiff(after, v) ==
  IF v.label \in labelsOf(after) THEN <<>>
  ELSE <<Difference(VARIABLE_REMOVED, v.label)>>

RECURSIVE matchedAndAdded(_, _, _)
matchedAndAdded(before, after, i) ==
  IF i > Len(after) THEN <<>>
  ELSE afterDiff(before, after[i]) \o matchedAndAdded(before, after, i + 1)

RECURSIVE removed(_, _, _)
removed(before, after, i) ==
  IF i > Len(before) THEN <<>>
  ELSE beforeDiff(after, before[i]) \o removed(before, after, i + 1)

\* diff(before, after): matched and added entries in the order of after,
\* then the removed entries in the order of before
checkLayouts(srcLayout_, cmpLayout_) ==
  matchedAndAdded(srcLayout_, cmpLayout_, 1) \o removed(srcLayout_, cmpLayout_, 1)

(***************************************************************************)
(* DiffFormatter and the caller's policy (spec.md 4.2, 4.4; index.ts).     *)
(***************************************************************************)
\* severity of each kind
diffLevels ==
  [k \in Kinds |-> IF k \in {ADDED, TYPE_CHANGE_WARNING} THEN "warning" ELSE "error"]

\* location: the declaration of the label when the index has it, else the file
formatDiff(cmpDef, diff) ==
  [type  |-> diff.kind,
   label |-> diff.label,
   loc   |-> IF diff.label \in cmpDef THEN "declaration" ELSE "file"]

\* every annotation at the default level
annotationLevel_default(type) == "error"

\* diffLevels[formattedDiff.type] || "error"
annotationLevel(type) ==
  IF type \in DOMAIN diffLevels THEN diffLevels[type] ELSE "error"

\* a decision that finds no entry for any type
decisionLevel_noEntry(type) == "undefined"

\* diffLevels[diff.type], undefined when the type has no entry
decisionLevel(type) ==
  IF type \in DOMAIN diffLevels THEN diffLevels[type] ELSE "undefined"

annotate(fd) ==
  [level |-> annotationLevel(fd.type), type |-> fd.type, label |-> fd.label,
   loc |-> fd.loc]

\* the final condition without its severity clause
unsafeChanges_removalOnly(formattedDiffs, failOnRemoval_) ==
  /\ failOnRemoval_
  /\ \E i \in DOMAIN formattedDiffs : formattedDiffs[i].type = VARIABLE_REMOVED

\* the condition of the final setFailed
unsafeChanges(formattedDiffs, failOnRemoval_) ==
  \/ \E i \in DOMAIN formattedDiffs : decisionLevel(formattedDiffs[i].type) = "error"
  \/ /\ failOnRemoval_
     /\ \E i \in DOMAIN formattedDiffs : formattedDiffs[i].type = VARIABLE_REMOVED

UnsafeMessage == "Unsafe storage layout changes detected. Please see above for details."
UploadFailedMessage == "Failed to upload storage layout report."

(***************************************************************************)
(* Snapshots the runs meet.                                                *)
(***************************************************************************)
Var(l, t) == [label |-> l, type |-> t]

\* the contract's declarations at the commits the runs build: between the
\* first and the second a narrows, b moves and c appears; between the first
\* and the third a is respelled and b changes to a type of the same width
RunDecls ==
  { <<Var("a", "uint256"), Var("b", "uint128")>>,
    <<Var("a", "uint128"), Var("b", "uint128"), Var("c", "uint128")>>,
    <<Var("a", "uint"), Var("b", "int128")>> }

\* an entry without its slot
MissingSlot ==
  <<[label |-> "a", type |-> "uint256", offset |-> 0, bytes |-> SlotWidth]>>

\* two entries on the same bytes
Overlapping ==
  <<[label |-> "a", type |-> "uint256", slot |-> "0", offset |-> 0,
     bytes |-> SlotWidth],
    [label |-> "b", type |-> "uint256", slot |-> "0", offset |-> 0,
     bytes |-> SlotWidth]>>

MalformedSnapshots == {MissingSlot, Overlapping}

\* what an artifact of another workflow holds
ForeignSnapshots == {MissingSlot}

(***************************************************************************)
(* State                                                                   *)
(***************************************************************************)
VARIABLES
  runs,          \* number of runs started
  foreign,       \* number of artifacts uploaded by other workflows
  artifacts,     \* the repository's artifacts, most recent first
  eventName, baseBranch, headBranch, contract, failOnRemoval,   \* inputs
  pc,            \* position of the current run in run()
  cmpContent,    \* raw candidate snapshot
  cmpLayout,
  pageNo,        \* page of the artifact listing the search is at
  artifactId,    \* 0 stands for null
  srcContent,    \* <<>> while undefined, else <<raw reference snapshot>>
  srcLayout,
  diffs,
  annotations,   \* annotations emitted through core[level]
  failed,        \* messages passed to core.setFailed
  fatal,         \* the fatal conditions the run met
  compared       \* checkLayouts was invoked

vars ==
  <<runs, foreign, artifacts, eventName, baseBranch, headBranch, contract,
    failOnRemoval, pc, cmpContent, cmpLayout, pageNo, artifactId, srcContent,
    srcLayout, diffs, annotations, failed, fatal, compared>>

inputs == <<eventName, baseBranch, headBranch, contract, failOnRemoval>>
store == <<runs, foreign, artifacts>>

baseReport == getReportPath(baseBranch, contractEscaped(contract))
outReport == getReportPath(headBranch, contractEscaped(contract))

ReportNames == {getReportPath(b, contractEscaped(c)) : b \in Branches, c \in Contracts}

setFailed(message) == failed' = Append(failed, message)

Ended == pc \in {"done", "rejected"}

Init ==
  /\ runs = 0
  /\ foreign = 0
  /\ artifacts = <<>>
  /\ eventName = "push"
  /\ baseBranch = NoBranch
  /\ headBranch = Branch_main
  /\ contract = Contract_A
  /\ failOnRemoval = FALSE
  /\ pc = "idle"
  /\ cmpContent = <<>>
  /\ cmpLayout = <<>>
  /\ pageNo = 1
  /\ artifactId = 0
  /\ srcContent = <<>>
  /\ srcLayout = <<>>
  /\ diffs = <<>>
  /\ annotations = <<>>
  /\ failed = <<>>
  /\ fatal = {}
  /\ compared = FALSE

(***************************************************************************)
(* Environment: the workflow starts the action; other workflows upload     *)
(* artifacts; artifacts expire.                                            *)
(***************************************************************************)
\* a new process: the module-level constants are read from the inputs
StartRun ==
  /\ pc = "idle" \/ Ended
  /\ runs < MaxRuns
  /\ runs' = runs + 1
  /\ \/ eventName' = "pull_request" /\ baseBranch' \in Branches
     \/ eventName' = "push" /\ baseBranch' = NoBranch
  /\ headBranch' \in Branches
  /\ contract' \in Contracts
  /\ failOnRemoval' \in BOOLEAN
  /\ pc' = "createLayout"
  /\ cmpContent' = <<>>
  /\ cmpLayout' = <<>>
  /\ pageNo' = 1
  /\ artifactId' = 0
  /\ srcContent' = <<>>
  /\ srcLayout' = <<>>
  /\ diffs' = <<>>
  /\ annotations' = <<>>
  /\ failed' = <<>>
  /\ fatal' = {}
  /\ compared' = FALSE
  /\ UNCHANGED <<foreign, artifacts>>

\* a pull-request run uploading an empty report
Artifact_emptyOnPullRequest(id, name, content, by) ==
  [id |-> id, name |-> name, expired |-> FALSE,
   content |-> IF by.kind = "run" /\ eventName = "pull_request" THEN <<>> ELSE content,
   by |-> by]

\* an artifact as uploadArtifact stores it
Artifact(id, name, content, by) ==
  [id |-> id, name |-> name, expired |-> FALSE, content |-> content, by |-> by]

ForeignUpload ==
  /\ pc = "idle" \/ Ended
  /\ foreign < MaxForeign
  /\ foreign' = foreign + 1
  /\ \E name \in ReportNames, content \in ForeignSnapshots :
       artifacts' = <<Artifact(Len(artifacts) + 1, name, content,
                               [kind |-> "foreign"])>> \o artifacts
  /\ UNCHANGED <<runs, inputs, pc, cmpContent, cmpLayout, pageNo, artifactId,
                 srcContent, srcLayout, diffs, annotations, failed, fatal, compared>>

Expire ==
  /\ pc = "idle" \/ Ended
  /\ \E i \in DOMAIN artifacts :
       /\ ~artifacts[i].expired
       /\ artifacts' = [artifacts EXCEPT ![i].expired = TRUE]
  /\ UNCHANGED <<runs, foreign, inputs, pc, cmpContent, cmpLayout, pageNo, artifactId,
                 srcContent, srcLayout, diffs, annotations, failed, fatal, compared>>

(***************************************************************************)
(* run()                                                                   *)
(***************************************************************************)
\* const cmpContent = createLayout(contract), outside any try
CreateLayout ==
  /\ pc = "createLayout"
  /\ \/ /\ \E d \in RunDecls : cmpContent' = createLayout(d)
        /\ pc' = "parseLayout"
        /\ UNCHANGED fatal
     \/ /\ cmpContent' \in MalformedSnapshots
        /\ pc' = "parseLayout"
        /\ UNCHANGED fatal
     \/ /\ pc' = "rejected"
        /\ fatal' = fatal \cup {"createLayout"}
        /\ UNCHANGED cmpContent
  /\ UNCHANGED <<store, inputs, cmpLayout, pageNo, artifactId, srcContent, srcLayout,
                 diffs, annotations, failed, compared>>

\* const cmpLayout = parseLayout(cmpContent), outside any try
ParseCandidate ==
  /\ pc = "parseLayout"
  /\ IF parseLayout(cmpContent).ok
       THEN /\ cmpLayout' = parseLayout(cmpContent).layout
            /\ pc' = "upload"
            /\ UNCHANGED fatal
       ELSE /\ pc' = "rejected"
            /\ fatal' = fatal \cup {"parseCandidate"}
            /\ UNCHANGED cmpLayout
  /\ UNCHANGED <<store, inputs, cmpContent, pageNo, artifactId, srcContent, srcLayout,
                 diffs, annotations, failed, compared>>

afterUpload == IF eventName = "pull_request" THEN "search" ELSE "load"

\* run() going on to the search after the catch of the upload
afterUploadFailure_goesOn == afterUpload

\* the catch of the upload: return core.setFailed(error.message)
afterUploadFailure == "done"

\* writeFileSync, uploadArtifact, the failedItems test and the catch
Upload ==
  /\ pc = "upload"
  /\ \/ /\ artifacts' = <<Artifact(Len(artifacts) + 1, outReport, cmpContent,
                                   [kind |-> "run", head |-> headBranch,
                                    contract |-> contract])>> \o artifacts
        /\ pc' = afterUpload
        /\ UNCHANGED <<failed, fatal>>
     \/ /\ \E message \in {"upload error", UploadFailedMessage} : setFailed(message)
        /\ fatal' = fatal \cup {"upload"}
        /\ pc' = afterUploadFailure
        /\ UNCHANGED artifacts
  /\ UNCHANGED <<runs, foreign, inputs, cmpContent, cmpLayout, pageNo, artifactId,
                 srcContent, srcLayout, diffs, annotations, compared>>

\* the pages of listArtifactsForRepo; the first page exists even when empty
lastPage == IF Len(artifacts) = 0 THEN 1 ELSE (Len(artifacts) + PageSize - 1) \div PageSize
pageData(p) ==
  SubSeq(artifacts, (p - 1) * PageSize + 1,
         IF p * PageSize < Len(artifacts) THEN p * PageSize ELSE Len(artifacts))

\* a find predicate that does not look at artifact.expired
matches_anyAge(a) == a.name = baseReport

\* (artifact) => !artifact.expired && artifact.name === baseReport
matches(a) == ~a.expired /\ a.name = baseReport

\* res.data.find(...): the first match of the page, 0 when there is none
findArtifact(data) ==
  IF \E i \in DOMAIN data : matches(data[i])
    THEN CHOOSE i \in DOMAIN data :
           matches(data[i]) /\ \A j \in 1..(i - 1) : ~matches(data[j])
    ELSE 0

\* the iterator's next request
nextPage(p) == p + 1

\* an exception of the search or the download taken for "not found"
afterLookupFailure_fallsBack == "load"

\* the catch of the search and the download: return core.setFailed(error.message)
afterLookupFailure == "done"

\* one iteration of the for await loop
SearchPage ==
  /\ pc = "search"
  /\ \/ /\ findArtifact(pageData(pageNo)) # 0
        /\ artifactId' = pageData(pageNo)[findArtifact(pageData(pageNo))].id
        /\ pc' = "download"
        /\ UNCHANGED <<pageNo, failed, fatal>>
     \/ /\ findArtifact(pageData(pageNo)) = 0
        /\ pageNo < lastPage
        /\ pageNo' = nextPage(pageNo)
        /\ UNCHANGED <<pc, artifactId, failed, fatal>>
     \/ /\ findArtifact(pageData(pageNo)) = 0
        /\ pageNo = lastPage
        /\ pc' = "load"
        /\ UNCHANGED <<pageNo, artifactId, failed, fatal>>
     \/ /\ setFailed("listArtifacts error")
        /\ fatal' = fatal \cup {"search"}
        /\ pc' = afterLookupFailure
        /\ UNCHANGED <<pageNo, artifactId>>
  /\ UNCHANGED <<store, inputs, cmpContent, cmpLayout, srcContent, srcLayout, diffs,
                 annotations, compared>>

artifactById(id) == artifacts[CHOOSE i \in DOMAIN artifacts : artifacts[i].id = id]

\* downloadArtifact and the zip entries: the report is the one entry
Download ==
  /\ pc = "download"
  /\ \/ /\ srcContent' = <<artifactById(artifactId).content>>
        /\ pc' = "load"
        /\ UNCHANGED <<failed, fatal>>
     \/ /\ setFailed("download error")
        /\ fatal' = fatal \cup {"download"}
        /\ pc' = afterLookupFailure
        /\ UNCHANGED srcContent
  /\ UNCHANGED <<store, inputs, cmpContent, cmpLayout, pageNo, artifactId, srcLayout,
                 diffs, annotations, compared>>

\* srcContent defaulting to an empty report
coalesce_emptyReport(src, cmp) == IF src = <<>> THEN << <<>> >> ELSE src

\* srcContent ??= cmpContent
coalesce(src, cmp) == IF src = <<>> THEN <<cmp>> ELSE src

\* run() going on after a failed parseLayout(srcContent)
afterLoad_goesOn(ok) == "check"

\* run() loading the reference again after the catch
afterLoad_retry(ok) == IF ok THEN "check" ELSE "load"

\* where run() goes after parseLayout(srcContent): on, or to the catch
afterLoad(ok) == IF ok THEN "check" ELSE "done"

\* srcContent ??= cmpContent; const srcLayout = parseLayout(srcContent)
LoadReference ==
  /\ pc = "load"
  /\ srcContent' = coalesce(srcContent, cmpContent)
  /\ IF parseLayout(srcContent'[1]).ok
       THEN /\ srcLayout' = parseLayout(srcContent'[1]).layout
            /\ UNCHANGED <<failed, fatal>>
       ELSE /\ setFailed("MalformedLayout")
            /\ fatal' = fatal \cup {"parseReference"}
            /\ UNCHANGED srcLayout
  /\ pc' = afterLoad(parseLayout(srcContent'[1]).ok)
  /\ UNCHANGED <<store, inputs, cmpContent, cmpLayout, pageNo, artifactId, diffs,
                 annotations, compared>>

\* const diffs = await checkLayouts(srcLayout, cmpLayout, ...)
CheckLayouts ==
  /\ pc = "check"
  /\ compared' = TRUE
  /\ diffs' = checkLayouts(srcLayout, cmpLayout)
  /\ pc' = IF Len(diffs') > 0 THEN "format" ELSE "done"
  /\ UNCHANGED <<store, inputs, cmpContent, cmpLayout, pageNo, artifactId, srcContent,
                 srcLayout, annotations, failed, fatal>>

\* annotations emitted in the reverse order
emit_reversed(formattedDiffs) ==
  [i \in DOMAIN formattedDiffs |->
     annotate(formattedDiffs[Len(formattedDiffs) + 1 - i])]

\* diffs.map: one annotation per difference, in the order of diffs
emit(formattedDiffs) ==
  [i \in DOMAIN formattedDiffs |-> annotate(formattedDiffs[i])]

\* parseSource, the annotations and the decision
Format ==
  /\ pc = "format"
  /\ \/ \E cmpDef \in SUBSET labelsOf(cmpLayout) :
          LET formattedDiffs == [i \in DOMAIN diffs |-> formatDiff(cmpDef, diffs[i])]
          IN /\ annotations' = emit(formattedDiffs)
             /\ IF unsafeChanges(formattedDiffs, failOnRemoval)
                  THEN setFailed(UnsafeMessage)
                  ELSE UNCHANGED failed
             /\ pc' = "done"
             /\ UNCHANGED fatal
     \/ /\ setFailed("UnparsableSource")
        /\ fatal' = fatal \cup {"parseSource"}
        /\ pc' = "done"
        /\ UNCHANGED annotations
  /\ UNCHANGED <<store, inputs, cmpContent, cmpLayout, pageNo, artifactId, srcContent,
                 srcLayout, diffs, compared>>

Next ==
  \/ StartRun
  \/ ForeignUpload
  \/ Expire
  \/ CreateLayout
  \/ ParseCandidate
  \/ Upload
  \/ SearchPage
  \/ Download
  \/ LoadReference
  \/ CheckLayouts
  \/ Format

Spec == Init /\ [][Next]_vars

(***************************************************************************)
(* The diff engine on its own: diff(before, after) for every pair of       *)
(* layouts.                                                                *)
(***************************************************************************)
InitEngine ==
  /\ runs = 0
  /\ foreign = 0
  /\ artifacts = <<>>
  /\ eventName = "push"
  /\ baseBranch = NoBranch
  /\ headBranch = Branch_main
  /\ contract = Contract_A
  /\ failOnRemoval = FALSE
  /\ pc = "engine"
  /\ cmpContent = <<>>
  /\ cmpLayout \in Layouts
  /\ pageNo = 1
  /\ artifactId = 0
  /\ srcContent = <<>>
  /\ srcLayout \in Layouts
  /\ diffs = <<>>
  /\ annotations = <<>>
  /\ failed = <<>>
  /\ fatal = {}
  /\ compared = FALSE

Diff ==
  /\ pc = "engine"
  /\ diffs' = checkLayouts(srcLayout, cmpLayout)
  /\ compared' = TRUE
  /\ pc' = "engineDone"
  /\ UNCHANGED <<store, inputs, cmpContent, cmpLayout, pageNo, artifactId, srcContent,
                 srcLayout, annotations, failed, fatal>>

NextEngine == Diff

SpecEngine == InitEngine /\ [][NextEngine]_vars

(***************************************************************************)
(* Properties                                                              *)
(***************************************************************************)
ErrorKinds == {UNSAFE_TYPE_CHANGE, POSITION_SHIFT, VARIABLE_REMOVED}
WarningKinds == {ADDED, TYPE_CHANGE_WARNING}

\* the run went through srcContent ??= cmpContent with nothing downloaded
NoPriorSnapshot ==
  /\ pc \in {"check", "format", "done"}
  /\ srcContent # <<>>
  /\ artifactId = 0

\* C1: a run that loaded no prior snapshot (no pull request, or a search that
\* ended without a match) takes the candidate as its reference, compares the
\* candidate layout with itself, reports no difference and is not marked failed.
C1_SelfComparison ==
  NoPriorSnapshot =>
    /\ srcContent = <<cmpContent>>
    /\ srcLayout = cmpLayout
    /\ pc # "format"
    /\ diffs = <<>>
    /\ annotations = <<>>
    /\ failed = <<>>

\* a pull-request run whose search went through an expired artifact named
\* baseReport, found nothing, and ended after the comparison
C1_Witness ==
  /\ NoPriorSnapshot
  /\ pc = "done"
  /\ compared
  /\ eventName = "pull_request"
  /\ \E i \in DOMAIN artifacts : artifacts[i].name = baseReport /\ artifacts[i].expired

\* the run ended after the comparison and, if any, the formatting
Completed == pc = "done" /\ compared /\ "parseSource" \notin fatal

\* C2: a run whose comparison and formatting completed is marked failed, with
\* the unsafe-changes message, exactly when a reported difference has error
\* severity, or failOnRemoval is set and a reported difference is a removal.
C2_FailurePolicy ==
  Completed =>
    /\ failed \in {<<>>, <<UnsafeMessage>>}
    /\ failed = <<UnsafeMessage>> <=>
         \/ \E i \in DOMAIN annotations : diffLevels[annotations[i].type] = "error"
         \/ /\ failOnRemoval
            /\ \E i \in DOMAIN annotations : annotations[i].type = VARIABLE_REMOVED

\* a completed run with failOnRemoval set that reported a removal and failed
C2_Witness ==
  /\ Completed
  /\ failOnRemoval
  /\ failed = <<UnsafeMessage>>
  /\ \E i \in DOMAIN annotations : annotations[i].type = VARIABLE_REMOVED

\* C3: the artifact a pull-request run selects as its reference, when a run of
\* the action uploaded it, was uploaded by a run whose head branch is this
\* run's base branch and whose contract is this run's contract.
C3_KeyedByBranchAndContract ==
  artifactId # 0 =>
    (artifactById(artifactId).by.kind = "run" =>
       /\ artifactById(artifactId).by.head = baseBranch
       /\ artifactById(artifactId).by.contract = contract)

\* C4: every annotated difference of kind UNSAFE_TYPE_CHANGE, POSITION_SHIFT or
\* REMOVED has level error, every one of kind ADDED or TYPE_CHANGE_WARNING has
\* level warning, at the annotation and in the pass/fail decision alike.
C4_Severity ==
  \A i \in DOMAIN annotations :
    /\ annotations[i].type \in ErrorKinds =>
         annotations[i].level = "error" /\ decisionLevel(annotations[i].type) = "error"
    /\ annotations[i].type \in WarningKinds =>
         annotations[i].level = "warning"
           /\ decisionLevel(annotations[i].type) = "warning"

\* a run that annotated a difference of an error kind and one of a warning kind
C4_Witness ==
  /\ pc = "done"
  /\ \E i, j \in DOMAIN annotations :
       annotations[i].type \in ErrorKinds /\ annotations[j].type \in WarningKinds

\* C5: when differences were detected and parseSource fails, every difference
\* is still reported, at a file-level location, and the pass/fail decision is
\* taken from the kinds of the differences.
C5_DiffProceedsWithoutSource ==
  (pc = "done" /\ "parseSource" \in fatal) =>
    /\ Len(annotations) = Len(diffs)
    /\ \A i \in DOMAIN annotations :
         annotations[i].type = diffs[i].kind /\ annotations[i].loc = "file"
    /\ failed \in {<<>>, <<UnsafeMessage>>}
    /\ failed = <<UnsafeMessage>> <=>
         \/ \E i \in DOMAIN diffs : diffLevels[diffs[i].kind] = "error"
         \/ failOnRemoval /\ \E i \in DOMAIN diffs : diffs[i].kind = VARIABLE_REMOVED

FatalConditions ==
  {"createLayout", "parseCandidate", "upload", "search", "download", "parseReference"}

\* C6: a run that met a fatal condition (snapshot generation, parse of the
\* candidate or of the reference, upload, artifact search or download) ends
\* marked failed through setFailed with the error's message.
C6_FatalMarkedFailed ==
  (Ended /\ fatal \cap FatalConditions # {}) => (pc = "done" /\ Len(failed) = 1)

\* C7: when parseLayout fails on the candidate or on the reference snapshot,
\* checkLayouts is not invoked in that run and no annotation is emitted.
C7_MalformedAborts ==
  ({"parseCandidate", "parseReference"} \cap fatal # {}) =>
    /\ ~compared
    /\ annotations = <<>>
    /\ Ended

\* a pull-request run that downloaded a malformed reference snapshot
C7_Witness ==
  /\ "parseReference" \in fatal
  /\ artifactId # 0
  /\ pc = "done"

EngineDone == pc = "engineDone"

countOf(kind, label) ==
  Cardinality({i \in DOMAIN diffs : diffs[i].kind = kind /\ diffs[i].label = label})

\* C8: diff(L, L) is the empty sequence for every valid layout L.
C8_NoOp == (EngineDone /\ srcLayout = cmpLayout) => diffs = <<>>

\* a layout of several slots compared with itself
C8_Witness ==
  /\ EngineDone
  /\ srcLayout = cmpLayout
  /\ \E i \in DOMAIN srcLayout : srcLayout[i].slot > 0

\* after is before followed by one or more variables
IsAppend(before, after) ==
  /\ Len(after) > Len(before)
  /\ SubSeq(after, 1, Len(before)) = before

\* C9: when after is before with new variables appended, diff(before, after)
\* holds only ADDED differences, exactly one per appended variable.
C9_AppendSafety ==
  (EngineDone /\ IsAppend(srcLayout, cmpLayout)) =>
    /\ Len(diffs) = Len(cmpLayout) - Len(srcLayout)
    /\ \A i \in DOMAIN diffs : diffs[i].kind = ADDED
    /\ \A j \in (Len(srcLayout) + 1)..Len(cmpLayout) :
         countOf(ADDED, cmpLayout[j].label) = 1

\* two variables appended to a non-empty layout, the first into a new slot
C9_Witness ==
  /\ EngineDone
  /\ IsAppend(srcLayout, cmpLayout)
  /\ Len(srcLayout) = 1
  /\ Len(cmpLayout) = 3
  /\ cmpLayout[2].slot > srcLayout[1].slot

\* C10: a label only in after yields exactly one ADDED and no REMOVED or
\* POSITION_SHIFT; a label only in before yields exactly one REMOVED and no
\* ADDED or POSITION_SHIFT, also when an added variable reuses its bytes.
C10_PresenceSymmetry ==
  EngineDone =>
    /\ \A l \in labelsOf(cmpLayout) \ labelsOf(srcLayout) :
         /\ countOf(ADDED, l) = 1
         /\ countOf(VARIABLE_REMOVED, l) = 0
         /\ countOf(POSITION_SHIFT, l) = 0
    /\ \A l \in labelsOf(srcLayout) \ labelsOf(cmpLayout) :
         /\ countOf(VARIABLE_REMOVED, l) = 1
         /\ countOf(ADDED, l) = 0
         /\ countOf(POSITION_SHIFT, l) = 0

\* a removed variable whose bytes an added variable of the same size reuses
C10_Witness ==
  /\ EngineDone
  /\ \E i \in DOMAIN srcLayout, j \in DOMAIN cmpLayout :
       /\ srcLayout[i].label \notin labelsOf(cmpLayout)
       /\ cmpLayout[j].label \notin labelsOf(srcLayout)
       /\ srcLayout[i].slot = cmpLayout[j].slot
       /\ srcLayout[i].offset = cmpLayout[j].offset
       /\ srcLayout[i].sizeBytes = cmpLayout[j].sizeBytes

\* position of a difference in the order of the output: matched and added
\* entries by their place in after, removed entries behind them by their place
\* in before
orderKey(before, after, d) ==
  IF d.kind = VARIABLE_REMOVED
    THEN Len(after) + (CHOOSE i \in DOMAIN before : before[i].label = d.label)
    ELSE CHOOSE i \in DOMAIN after : after[i].label = d.label

selectedIndex == CHOOSE i \in DOMAIN artifacts : artifacts[i].id = artifactId

\* the run holds a selected artifact and has not ended
Selected == artifactId # 0 /\ pc \in {"download", "load", "check", "format"}

\* C12: the artifact a pull-request run selects is the first of the listing
\* that is not expired and is named baseReport, and the search stopped at the
\* page that holds it.
C12_FirstMatchSelected ==
  Selected =>
    /\ eventName = "pull_request"
    /\ ~artifacts[selectedIndex].expired
    /\ artifacts[selectedIndex].name = baseReport
    /\ \A j \in 1..(selectedIndex - 1) :
         artifacts[j].expired \/ artifacts[j].name # baseReport
    /\ pageNo = ((selectedIndex - 1) \div PageSize) + 1

\* a selection behind a more recent expired artifact of the same name
C12_Witness ==
  /\ Selected
  /\ \E j \in 1..(selectedIndex - 1) :
       artifacts[j].expired /\ artifacts[j].name = baseReport

\* C13: an exception of the search or of the download ends the run marked
\* failed with the error's message: no fallback to the candidate, no
\* comparison, no annotation.
C13_LookupFailureIsFatal ==
  ({"search", "download"} \cap fatal # {}) =>
    /\ pc = "done"
    /\ failed \in {<<"listArtifacts error">>, <<"download error">>}
    /\ srcContent = <<>>
    /\ ~compared
    /\ annotations = <<>>

\* a run whose download of a selected artifact threw
C13_Witness ==
  /\ "download" \in fatal
  /\ artifactId # 0
  /\ pc = "done"

\* the run is past its upload
PastUpload == pc \in {"search", "download", "load", "check", "format"}

\* C14: the candidate snapshot is uploaded under outReport before the search
\* begins, and a failed upload ends the run marked failed, with no search, no
\* download and no comparison.
C14_UploadBeforeSearch ==
  /\ PastUpload =>
       /\ artifacts # <<>>
       /\ artifacts[1].name = getReportPath(headBranch, contractEscaped(contract))
       /\ artifacts[1].content = cmpContent
       /\ artifacts[1].by = [kind |-> "run", head |-> headBranch, contract |-> contract]
  /\ "upload" \in fatal =>
       /\ pc = "done"
       /\ Len(failed) = 1
       /\ pageNo = 1
       /\ artifactId = 0
       /\ srcContent = <<>>
       /\ ~compared

\* a run whose upload reported failed items
C14_Witness ==
  /\ "upload" \in fatal
  /\ failed = <<UploadFailedMessage>>
  /\ eventName = "pull_request"

(***************************************************************************)
(* Termination.  Each step of run() is an external call that returns or    *)
(* throws, or a computation.  A step that can be taken is taken; that an   *)
(* external call throws is possible and never assumed.                     *)
(***************************************************************************)
RunStep ==
  \/ CreateLayout
  \/ ParseCandidate
  \/ Upload
  \/ SearchPage
  \/ Download
  \/ LoadReference
  \/ CheckLayouts
  \/ Format

\* the step is the exception of an external call
ExternalThrow ==
  (fatal' \ fatal) \cap {"createLayout", "upload", "search", "download", "parseSource"}
    # {}

Progress == RunStep /\ ~ExternalThrow

SpecFair == Init /\ [][Next]_vars /\ WF_vars(Progress)

Running == pc \notin {"idle", "done", "rejected"}

\* every run ends: the search loop stops at the first match or at the last
\* page, and run() returns or rejects
RunTerminates == Running ~> Ended

\* C15: every run terminates in a final state that is either marked failed or
\* completed after the comparison; as a property of the final states: a run
\* that ended has called setFailed or has invoked checkLayouts.
C15_EndsFailedOrCompleted ==
  Ended => (pc = "done" /\ (failed # <<>> \/ compared))

ownArtifact(a) ==
  /\ a.by = [kind |-> "run", head |-> headBranch, contract |-> contract]
  /\ a.name = getReportPath(headBranch, contractEscaped(contract))
  /\ a.content = cmpContent

\* C17: a run marked failed for unsafe storage layout changes has uploaded its
\* candidate snapshot under outReport: the artifact is in the store, where a
\* later run whose baseReport is that name finds it.
C17_UploadedDespiteFailure ==
  (\E k \in DOMAIN failed : failed[k] = UnsafeMessage) =>
    \E i \in DOMAIN artifacts : ownArtifact(artifacts[i])

\* a run that failed for unsafe changes and whose artifact heads the listing,
\* not expired
C17_Witness ==
  /\ failed = <<UnsafeMessage>>
  /\ pc = "done"
  /\ artifacts # <<>>
  /\ ownArtifact(artifacts[1])
  /\ ~artifacts[1].expired

\* what a step of run() changes
runState ==
  <<pc, cmpContent, cmpLayout, pageNo, artifactId, srcContent, srcLayout, diffs,
    annotations, failed, fatal, compared>>

\* C18: setFailed is called at most once in a run, and after it the run takes
\* no step: its state stays as it is until the next run starts.
C18_FailedOnceAndLast ==
  [][/\ Len(failed') <= 1
     /\ failed # <<>> => (runs' = runs + 1 \/ UNCHANGED runState)]_vars

\* a run stopped by the final setFailed, after its annotations
C18_Witness ==
  /\ Len(failed) = 1
  /\ pc = "done"
  /\ fatal = {}
  /\ annotations # <<>>
  /\ failOnRemoval

====
